---- MODULE Spec2Model ----
(***************************************************************************)
(* The order lifecycle and assignment engine of the coffee shop manager:   *)
(* Order (models/order.py), Customer (models/customer.py), Barista         *)
(* (models/barista.py), Drink (models/drink.py) and the CafeManager ledger *)
(* (managers/cafe_manager.py).                                             *)
(*                                                                         *)
(* Money is counted in kurus (1/100 of a lira), so that the size           *)
(* multipliers 0.8 / 1.0 / 1.3 and the discount rates 0.10 / 0.20 are      *)
(* exact on the prices of the menu used here.                              *)
(*                                                                         *)
(* A Python call that raises is modelled as one step that keeps whatever   *)
(* the call had already written before the raise; `last` records the call  *)
(* and whether it returned or raised.                                      *)
(***************************************************************************)
EXTENDS Integers, Sequences, FiniteSets, TLC

\* ---------------------------------------------------------------- bounds
MaxOrders == 2          \* Order objects constructed in one run of Spec
MaxDirect == 1          \* Order objects constructed in one run of SpecOrder
MaxQty == 2             \* largest quantity one line may reach
MaxBalance == 12000     \* balance up to which add_balance is called
MaxLog == 2             \* length the order log may reach

\* ------------------------------------------------------------- constants
PENDING == "Beklemede"
PREPARING == "Hazirlaniyor"
READY == "Hazir"
DELIVERED == "Teslim Edildi"
CANCELLED == "Iptal Edildi"
OrderStatus == {PENDING, PREPARING, READY, DELIVERED, CANCELLED}

None == "None"

\* size_multipliers of Drink.get_final_price, in tenths
SmallMultiplier == 8
MediumMultiplier == 10
LargeMultiplier == 13

\* two drinks of the default menu (models/menu.py), prices in kurus
LattePrice == 3500
MuffinPrice == 2800
Latte == [name |-> "Latte", price |-> LattePrice, size |-> "Medium"]
Muffin == [name |-> "Muffin", price |-> MuffinPrice, size |-> "Medium"]
EspressoPrice == 2500
IcedLattePrice == 3800
Espresso == [name |-> "Espresso", price |-> EspressoPrice, size |-> "Small"]
IcedLatte == [name |-> "Iced Latte", price |-> IcedLattePrice, size |-> "Large"]
Drinks == {Latte, Muffin}

\* one drink of the menu for each size
SizedDrinks == {Espresso, Latte, IcedLatte}

\* discount rates of the customer classes, in percent
PremiumRate == 10
VIPRate == 20

\* the customers and baristas of _initialize_default_data, in list order
CustomerList == <<"ali", "zeynep", "can">>
BaristaList == <<"ayse", "mehmet">>
CustomerType ==
    [ali |-> "RegularCustomer", zeynep |-> "PremiumCustomer", can |-> "VIPCustomer"]

Range(s) == {s[i] : i \in 1..Len(s)}
Customers == Range(CustomerList)
Baristas == Range(BaristaList)

\* balances a data file may hold at construction, in kurus
InitBalance ==
    [ali |-> {1000}, zeynep |-> {50000}, can |-> {10000, 12000}]

\* the name the model gives to the customer, and to the barista, that a
\* registration constructs
NewCustomer == "yeni"
NewBarista == "elif"
CustomerNames == Customers \cup {NewCustomer}
BaristaNames == Baristas \cup {NewBarista}

\* the emails, experience years and hourly rates (in kurus) of the default data
DefaultEmail ==
    [ali |-> "ali@email.com", zeynep |-> "zeynep@email.com", can |-> "can@email.com",
     ayse |-> "ayse@cafe.com", mehmet |-> "mehmet@cafe.com"]
DefaultExperience == [ayse |-> 5, mehmet |-> 3]
DefaultRate == [ayse |-> 6000, mehmet |-> 5500]

\* str.lower on the emails the model uses
Lower(e) ==
    CASE e = "ALI@EMAIL.COM" -> "ali@email.com"
      [] e = "Ayse@Cafe.com" -> "ayse@cafe.com"
      [] OTHER -> e

\* the customers who order in Spec: one who cannot pay for a cart, one who can
Ordering == {"ali", "can"}

OrderIds == 1..MaxOrders

VARIABLES
    is_open,          \* CafeManager.__is_open
    daily_revenue,    \* CafeManager.__daily_revenue
    total_revenue,    \* CafeManager.__total_revenue
    orders,           \* CafeManager.__orders: the order log, a list of Order ids
    pending_orders,   \* CafeManager.__pending_orders: the queue
    id_counter,       \* number of Order objects constructed (Order._id_counter - 1)
    order,            \* the Order objects, by id
    customer,         \* the Customer objects
    barista,          \* the Barista objects
    customers,        \* CafeManager.__customers: name, id, email and class of each entry
    baristas,         \* CafeManager.__baristas: name, id, email, experience, rate
    customer_id_counter,   \* Customer._id_counter
    barista_id_counter,    \* Barista._id_counter
    last,             \* the last call: its name, its arguments, whether it returned
    pre               \* the state the last call started from

vars == <<is_open, daily_revenue, total_revenue, orders, pending_orders,
          id_counter, order, customer, barista, customers, baristas,
          customer_id_counter, barista_id_counter, last, pre>>

ledger == <<is_open, daily_revenue, total_revenue, orders, pending_orders>>

registry == <<customers, baristas, customer_id_counter, barista_id_counter>>

\* the program's state, as one value
State ==
    [is_open |-> is_open, daily_revenue |-> daily_revenue,
     total_revenue |-> total_revenue, orders |-> orders,
     pending_orders |-> pending_orders, id_counter |-> id_counter,
     order |-> order, customer |-> customer, barista |-> barista,
     customers |-> customers, baristas |-> baristas,
     customer_id_counter |-> customer_id_counter,
     barista_id_counter |-> barista_id_counter]

\* ------------------------------------------------------------ Drink
\* Drink.get_final_price
get_final_price(d) ==
    LET m == CASE d.size = "Small" -> SmallMultiplier
               [] d.size = "Medium" -> MediumMultiplier
               [] d.size = "Large" -> LargeMultiplier
    IN (d.price * m) \div 10

\* Drink.__eq__: same name and same size
DrinkEq(d1, d2) == d1.name = d2.name /\ d1.size = d2.size

\* ------------------------------------------------------------ Customer
\* calculate_discount with the Premium rate for the VIP class too
customer_calculate_discount_m(c, amount) ==
    CASE CustomerType[c] = "RegularCustomer" -> 0
      [] CustomerType[c] = "PremiumCustomer" -> (amount * PremiumRate) \div 100
      [] CustomerType[c] = "VIPCustomer" -> (amount * PremiumRate) \div 100

\* calculate_discount of RegularCustomer / PremiumCustomer / VIPCustomer
customer_calculate_discount(c, amount) ==
    CASE CustomerType[c] = "RegularCustomer" -> 0
      [] CustomerType[c] = "PremiumCustomer" -> (amount * PremiumRate) \div 100
      [] CustomerType[c] = "VIPCustomer" -> (amount * VIPRate) \div 100

\* earn_loyalty_points without the multiplier of the class
loyalty_points_for_m(c, amount) == amount \div 1000

\* earn_loyalty_points of the three classes: int(amount / 10) * multiplier
loyalty_points_for(c, amount) ==
    LET m == CASE CustomerType[c] = "RegularCustomer" -> 1
               [] CustomerType[c] = "PremiumCustomer" -> 2
               [] CustomerType[c] = "VIPCustomer" -> 3
    IN (amount \div 1000) * m

\* deduct_balance without its guard: any amount is taken
deduct_balance_m(cust, amount) ==
    [ok |-> TRUE, self |-> [cust EXCEPT !.balance = @ - amount]]

\* Customer.deduct_balance: raises when amount > balance
deduct_balance(cust, amount) ==
    IF amount > cust.balance
    THEN [ok |-> FALSE, self |-> cust]
    ELSE [ok |-> TRUE, self |-> [cust EXCEPT !.balance = @ - amount]]

\* add_balance without its guard: any amount is added
add_balance_m(cust, amount) ==
    [ok |-> TRUE, self |-> [cust EXCEPT !.balance = @ + amount]]

\* Customer.add_balance: raises when amount <= 0
add_balance(cust, amount) ==
    IF amount <= 0
    THEN [ok |-> FALSE, self |-> cust]
    ELSE [ok |-> TRUE, self |-> [cust EXCEPT !.balance = @ + amount]]

\* ------------------------------------------------------------ Order
RECURSIVE SumLines(_)
SumLines(items) ==
    IF items = <<>> THEN 0
    ELSE get_final_price(Head(items).drink) * Head(items).qty + SumLines(Tail(items))

\* Order.calculate_subtotal
calculate_subtotal(ord) == SumLines(ord.items)

\* calculate_discount that discounts what the cached discount has left
calculate_discount_m(ord) ==
    customer_calculate_discount(ord.customer, calculate_subtotal(ord) - ord.discount_applied)

\* Order.calculate_discount: the amount (the caller stores it in discount_applied)
calculate_discount(ord) ==
    customer_calculate_discount(ord.customer, calculate_subtotal(ord))

\* Order.total_price: subtotal minus discount
total_price(ord) == calculate_subtotal(ord) - calculate_discount(ord)

\* the write total_price makes on the order it is read from
Priced(ord) == [ord EXCEPT !.discount_applied = calculate_discount(ord)]

\* Order.__bool__ on a reference that may be None
Truthy(ords, o) == o # 0 /\ ords[o].items # <<>>

\* Order.__len__ / get_item_count
RECURSIVE get_item_count(_)
get_item_count(items) ==
    IF items = <<>> THEN 0 ELSE Head(items).qty + get_item_count(Tail(items))

\* Order.start_preparation
start_preparation(ord, b) ==
    IF ord.status # PENDING
    THEN [ok |-> FALSE, self |-> ord]
    ELSE [ok |-> TRUE, self |-> [ord EXCEPT !.barista = b, !.status = PREPARING]]

\* mark_as_ready that also accepts a Cancelled order
mark_as_ready_m(ord) ==
    IF ord.status \notin {PREPARING, CANCELLED}
    THEN [ok |-> FALSE, self |-> ord]
    ELSE [ok |-> TRUE, self |-> [ord EXCEPT !.status = READY]]

\* Order.mark_as_ready
mark_as_ready(ord) ==
    IF ord.status # PREPARING
    THEN [ok |-> FALSE, self |-> ord]
    ELSE [ok |-> TRUE, self |-> [ord EXCEPT !.status = READY]]

\* mark_as_delivered that also accepts a Preparing order
mark_as_delivered_m(ord) ==
    IF ord.status \notin {PREPARING, READY}
    THEN [ok |-> FALSE, self |-> ord]
    ELSE [ok |-> TRUE, self |-> Priced([ord EXCEPT !.status = DELIVERED])]

\* Order.mark_as_delivered, the part that writes the order (status and the
\* discount cache written by reading total_price)
mark_as_delivered(ord) ==
    IF ord.status # READY
    THEN [ok |-> FALSE, self |-> ord]
    ELSE [ok |-> TRUE, self |-> Priced([ord EXCEPT !.status = DELIVERED])]

\* the customer's part of mark_as_delivered without add_to_history
Delivered_customer_m(cust, c, o, ord) ==
    [cust EXCEPT !.loyalty_points = @ + loyalty_points_for(c, total_price(ord))]

\* Order.mark_as_delivered, the part that writes the customer:
\* earn_loyalty_points(total_price) and add_to_history(order)
Delivered_customer(cust, c, o, ord) ==
    [cust EXCEPT !.loyalty_points = @ + loyalty_points_for(c, total_price(ord)),
                 !.order_history = Append(@, [order_id |-> o, total |-> total_price(ord)])]

\* cancel that refuses only a Delivered order
cancel_m(ord) ==
    IF ord.status = DELIVERED
    THEN [ok |-> FALSE, self |-> ord]
    ELSE [ok |-> TRUE, self |-> [ord EXCEPT !.status = CANCELLED]]

\* Order.cancel
cancel(ord) ==
    IF ord.status \in {DELIVERED, CANCELLED}
    THEN [ok |-> FALSE, self |-> ord]
    ELSE [ok |-> TRUE, self |-> [ord EXCEPT !.status = CANCELLED]]

\* the index of the line holding a drink equal to d, or 0
RECURSIVE IndexOf(_, _, _)
IndexOf(items, d, i) ==
    IF i > Len(items) THEN 0
    ELSE IF DrinkEq(items[i].drink, d) THEN i
    ELSE IndexOf(items, d, i + 1)

\* add_item that appends a line without looking for the drink
add_item_m(ord, d, q) ==
    IF q <= 0
    THEN [ok |-> FALSE, self |-> ord]
    ELSE [ok |-> TRUE, self |-> [ord EXCEPT !.items = Append(@, [drink |-> d, qty |-> q])]]

\* Order.add_item
add_item(ord, d, q) ==
    IF q <= 0
    THEN [ok |-> FALSE, self |-> ord]
    ELSE LET i == IndexOf(ord.items, d, 1) IN
         IF i # 0
         THEN [ok |-> TRUE, self |-> [ord EXCEPT !.items[i].qty = @ + q]]
         ELSE [ok |-> TRUE,
               self |-> [ord EXCEPT !.items = Append(@, [drink |-> d, qty |-> q])]]

\* Order.remove_item
remove_item(ord, d) ==
    [ok |-> TRUE,
     self |-> [ord EXCEPT !.items = SelectSeq(@, LAMBDA l : ~DrinkEq(l.drink, d))]]

\* Order.clear_items
clear_items(ord) == [ok |-> TRUE, self |-> [ord EXCEPT !.items = <<>>]]

\* ------------------------------------------------------------ Barista
\* is_available that looks at the duty flag only
is_available_m(bar) == bar.is_on_duty

\* Barista.is_available
is_available(bar) == bar.is_on_duty /\ bar.current_order = 0

\* ------------------------------------------------------------ lists
\* list.remove: drops the first occurrence
RECURSIVE ListRemove(_, _)
ListRemove(s, x) ==
    IF s = <<>> THEN <<>>
    ELSE IF Head(s) = x THEN Tail(s)
    ELSE <<Head(s)>> \o ListRemove(Tail(s), x)

\* get_order_by_id that finds every id
get_order_by_id_m(log, id) == id

\* CafeManager.get_order_by_id: the order of the log with that id, or 0 (None)
get_order_by_id(log, id) == IF id \in Range(log) THEN id ELSE 0

\* ------------------------------------------------------------ Init
NewOrder ==
    [customer |-> None, barista |-> None, items |-> <<>>, status |-> PENDING,
     discount_applied |-> 0]

Call(op, arg, who, ok) == [op |-> op, arg |-> arg, who |-> who, ok |-> ok]

\* Customer.__init__ and Barista.__init__: the fields of a new object
NewCustomerObject(balance) ==
    [balance |-> balance, loyalty_points |-> 0, order_history |-> <<>>]
NewBaristaObject ==
    [is_on_duty |-> FALSE, current_order |-> 0, orders_completed |-> <<>>]

InitWith(balances) ==
    /\ is_open = FALSE
    /\ daily_revenue = 0
    /\ total_revenue = 0
    /\ orders = <<>>
    /\ pending_orders = <<>>
    /\ id_counter = 0
    /\ order = [o \in OrderIds |-> NewOrder]
    /\ customer \in {f \in [CustomerNames ->
                                 [balance : {0} \cup UNION {balances[c] : c \in Customers},
                                  loyalty_points : {0},
                                  order_history : {<<>>}]] :
                        /\ \A c \in Customers : f[c].balance \in balances[c]
                        /\ f[NewCustomer] = NewCustomerObject(0)}
    /\ barista = [b \in BaristaNames |-> NewBaristaObject]
    /\ customers = [i \in 1..Len(CustomerList) |->
                      [name |-> CustomerList[i], id |-> i,
                       email |-> DefaultEmail[CustomerList[i]],
                       type |-> CustomerType[CustomerList[i]]]]
    /\ baristas = [i \in 1..Len(BaristaList) |->
                     [name |-> BaristaList[i], id |-> i,
                      email |-> DefaultEmail[BaristaList[i]],
                      experience_years |-> DefaultExperience[BaristaList[i]],
                      hourly_rate |-> DefaultRate[BaristaList[i]]]]
    /\ customer_id_counter = Len(CustomerList) + 1
    /\ barista_id_counter = Len(BaristaList) + 1
    /\ last = Call("init", 0, None, TRUE)
    /\ pre = State

\* the state after CafeManager.__init__ has loaded the data
Init == InitWith(InitBalance)

\* ------------------------------------------------------------ Barista methods
\* Barista.start_shift
start_shift(bar) ==
    IF bar.is_on_duty
    THEN [ok |-> FALSE, self |-> bar]
    ELSE [ok |-> TRUE, self |-> [bar EXCEPT !.is_on_duty = TRUE]]

\* Barista.end_shift: `if self.__current_order` is Order.__bool__
end_shift(bar, ords) ==
    IF ~bar.is_on_duty
    THEN [ok |-> FALSE, self |-> bar]
    ELSE IF Truthy(ords, bar.current_order)
    THEN [ok |-> FALSE, self |-> bar]
    ELSE [ok |-> TRUE, self |-> [bar EXCEPT !.is_on_duty = FALSE]]

\* take_order without its look at the order's status
take_order_m(bar, b, ord, o, ords) ==
    IF ~bar.is_on_duty
    THEN [ok |-> FALSE, self |-> bar, ord |-> ord]
    ELSE IF Truthy(ords, bar.current_order)
    THEN [ok |-> FALSE, self |-> bar, ord |-> ord]
    ELSE [ok |-> TRUE, self |-> [bar EXCEPT !.current_order = o],
          ord |-> [ord EXCEPT !.barista = b, !.status = PREPARING]]

\* Barista.take_order: writes the barista (self) and the order (ord)
take_order(bar, b, ord, o, ords) ==
    IF ~bar.is_on_duty
    THEN [ok |-> FALSE, self |-> bar, ord |-> ord]
    ELSE IF Truthy(ords, bar.current_order)
    THEN [ok |-> FALSE, self |-> bar, ord |-> ord]
    ELSE IF ord.status # PENDING
    THEN [ok |-> FALSE, self |-> bar, ord |-> ord]
    ELSE LET r == start_preparation(ord, b) IN
         [ok |-> r.ok, self |-> [bar EXCEPT !.current_order = o], ord |-> r.self]

\* Barista.complete_order that keeps the completed order as current_order
barista_complete_order_m(bar, ords) ==
    LET cur == bar.current_order IN
    IF ~Truthy(ords, cur)
    THEN [ok |-> FALSE, self |-> bar, ords |-> ords]
    ELSE LET r == mark_as_ready(ords[cur]) IN
         IF ~r.ok
         THEN [ok |-> FALSE, self |-> bar, ords |-> ords]
         ELSE [ok |-> TRUE,
               self |-> [bar EXCEPT
                           !.orders_completed =
                               Append(@, [order_id |-> cur, total |-> total_price(r.self)])],
               ords |-> [ords EXCEPT ![cur] = Priced(r.self)]]

\* Barista.complete_order: writes the barista (self) and the orders (ords)
barista_complete_order(bar, ords) ==
    LET cur == bar.current_order IN
    IF ~Truthy(ords, cur)
    THEN [ok |-> FALSE, self |-> bar, ords |-> ords]
    ELSE LET r == mark_as_ready(ords[cur]) IN
         IF ~r.ok
         THEN [ok |-> FALSE, self |-> bar, ords |-> ords]
         ELSE [ok |-> TRUE,
               self |-> [bar EXCEPT
                           !.orders_completed =
                               Append(@, [order_id |-> cur, total |-> total_price(r.self)]),
                           !.current_order = 0],
               ords |-> [ords EXCEPT ![cur] = Priced(r.self)]]

\* ------------------------------------------------------------ CafeManager helpers
\* the loop of close_cafe over the baristas: stops at the first end_shift that raises
RECURSIVE EndShifts(_, _, _)
EndShifts(bars, ords, i) ==
    IF i > Len(baristas) THEN [ok |-> TRUE, bars |-> bars]
    ELSE LET b == baristas[i].name IN
         IF bars[b].is_on_duty
         THEN LET r == end_shift(bars[b], ords) IN
              IF ~r.ok THEN [ok |-> FALSE, bars |-> bars]
              ELSE EndShifts([bars EXCEPT ![b] = r.self], ords, i + 1)
         ELSE EndShifts(bars, ords, i + 1)

\* assign_order_to_barista without its look at the pending queue
Assign_m(ords, bars, pend, o, b) ==
    IF ~is_available(bars[b])
    THEN [ok |-> FALSE, ords |-> ords, bars |-> bars, pend |-> pend]
    ELSE LET r == take_order(bars[b], b, ords[o], o, ords) IN
         IF ~r.ok
         THEN [ok |-> FALSE, ords |-> [ords EXCEPT ![o] = r.ord],
               bars |-> [bars EXCEPT ![b] = r.self], pend |-> pend]
         ELSE [ok |-> TRUE, ords |-> [ords EXCEPT ![o] = r.ord],
               bars |-> [bars EXCEPT ![b] = r.self], pend |-> ListRemove(pend, o)]

\* CafeManager.assign_order_to_barista on given collections
Assign(ords, bars, pend, o, b) ==
    IF o \notin Range(pend)
    THEN [ok |-> FALSE, ords |-> ords, bars |-> bars, pend |-> pend]
    ELSE IF ~is_available(bars[b])
    THEN [ok |-> FALSE, ords |-> ords, bars |-> bars, pend |-> pend]
    ELSE LET r == take_order(bars[b], b, ords[o], o, ords) IN
         IF ~r.ok
         THEN [ok |-> FALSE, ords |-> [ords EXCEPT ![o] = r.ord],
               bars |-> [bars EXCEPT ![b] = r.self], pend |-> pend]
         ELSE [ok |-> TRUE, ords |-> [ords EXCEPT ![o] = r.ord],
               bars |-> [bars EXCEPT ![b] = r.self], pend |-> ListRemove(pend, o)]

\* CafeManager.get_available_baristas: in list order
get_available_baristas(bars) ==
    SelectSeq([i \in 1..Len(baristas) |-> baristas[i].name],
              LAMBDA b : is_available(bars[b]))

\* the loop of auto_assign_orders over the baristas that were available at its start
RECURSIVE AutoAssign(_, _, _, _)
AutoAssign(ords, bars, pend, avail) ==
    IF avail = <<>> \/ pend = <<>>
    THEN [ok |-> TRUE, ords |-> ords, bars |-> bars, pend |-> pend]
    ELSE LET r == Assign(ords, bars, pend, pend[1], Head(avail)) IN
         IF ~r.ok THEN r
         ELSE AutoAssign(r.ords, r.bars, r.pend, Tail(avail))

\* ------------------------------------------------------------ CafeManager commands
\* what every call does besides its own writes: it is recorded with the state it saw
Recorded(op, arg, who, ok) ==
    /\ last' = Call(op, arg, who, ok)
    /\ pre' = State

\* a call that neither registers nor removes anybody
Called(op, arg, who, ok) ==
    /\ Recorded(op, arg, who, ok)
    /\ UNCHANGED registry

Unchanged == UNCHANGED <<ledger, id_counter, order, customer, barista>>

\* open_cafe that keeps the daily revenue of the day before
open_cafe_m ==
    /\ Called("open_cafe", 0, None, ~is_open)
    /\ IF is_open
       THEN Unchanged
       ELSE /\ is_open' = TRUE
            /\ UNCHANGED <<daily_revenue, total_revenue, orders, pending_orders, id_counter,
                           order, customer, barista>>

\* CafeManager.open_cafe
open_cafe ==
    /\ Called("open_cafe", 0, None, ~is_open)
    /\ IF is_open
       THEN Unchanged
       ELSE /\ is_open' = TRUE
            /\ daily_revenue' = 0
            /\ UNCHANGED <<total_revenue, orders, pending_orders, id_counter, order,
                           customer, barista>>

\* CafeManager.close_cafe
close_cafe ==
    IF ~is_open
    THEN Called("close_cafe", 0, None, FALSE) /\ Unchanged
    ELSE LET r == EndShifts(barista, order, 1) IN
         /\ Called("close_cafe", 0, None, r.ok)
         /\ barista' = r.bars
         /\ is_open' = (IF r.ok THEN FALSE ELSE is_open)
         /\ total_revenue' = (IF r.ok THEN total_revenue + daily_revenue ELSE total_revenue)
         /\ UNCHANGED <<daily_revenue, orders, pending_orders, id_counter, order, customer>>

\* Order.__init__: the next Order object, bound to a customer
order_new(c) ==
    /\ Called("Order", id_counter + 1, None, TRUE)
    /\ id_counter' = id_counter + 1
    /\ order' = [order EXCEPT ![id_counter + 1] = [NewOrder EXCEPT !.customer = c]]
    /\ UNCHANGED <<ledger, customer, barista>>

\* create_order without its look at the open flag
create_order_m(c) ==
    /\ Called("create_order", id_counter + 1, None, TRUE)
    /\ id_counter' = id_counter + 1
    /\ order' = [order EXCEPT ![id_counter + 1] = [NewOrder EXCEPT !.customer = c]]
    /\ UNCHANGED <<ledger, customer, barista>>

\* CafeManager.create_order: constructs Order(customer) when the cafe is open
create_order(c) ==
    IF ~is_open
    THEN Called("create_order", 0, None, FALSE) /\ Unchanged
    ELSE /\ Called("create_order", id_counter + 1, None, TRUE)
         /\ id_counter' = id_counter + 1
         /\ order' = [order EXCEPT ![id_counter + 1] = [NewOrder EXCEPT !.customer = c]]
         /\ UNCHANGED <<ledger, customer, barista>>

\* process_payment that takes what the customer has when the payment fails
process_payment_m(ord, cust) ==
    LET pay == deduct_balance(cust, total_price(ord)) IN
    [ok |-> pay.ok, ord |-> Priced(ord),
     cust |-> IF pay.ok THEN pay.self ELSE [cust EXCEPT !.balance = 0]]

\* Order.process_payment: writes the order's discount cache and the customer
process_payment(ord, cust) ==
    LET pay == deduct_balance(cust, total_price(ord)) IN
    [ok |-> pay.ok, ord |-> Priced(ord), cust |-> pay.self]

\* CafeManager.submit_order
submit_order(o) ==
    /\ o \in 1..id_counter
    /\ Len(orders) < MaxLog
    /\ LET ord == order[o]
           c == ord.customer
           pay == process_payment(ord, customer[c])
       IN
       IF ~is_open
       THEN Called("submit_order", o, None, FALSE) /\ Unchanged
       ELSE IF ~Truthy(order, o) \/ get_item_count(ord.items) = 0
       THEN Called("submit_order", o, None, FALSE) /\ Unchanged
       ELSE /\ Called("submit_order", o, None, pay.ok)
            /\ order' = [order EXCEPT ![o] = pay.ord]
            /\ customer' = [customer EXCEPT ![c] = pay.cust]
            /\ orders' = (IF pay.ok THEN Append(orders, o) ELSE orders)
            /\ pending_orders' = (IF pay.ok THEN Append(pending_orders, o) ELSE pending_orders)
            /\ UNCHANGED <<is_open, daily_revenue, total_revenue, id_counter, barista>>

\* CafeManager.assign_order_to_barista
assign_order_to_barista(o, b) ==
    /\ o \in 1..id_counter
    /\ LET r == Assign(order, barista, pending_orders, o, b) IN
       /\ Called("assign_order_to_barista", o, b, r.ok)
       /\ order' = r.ords
       /\ barista' = r.bars
       /\ pending_orders' = r.pend
    /\ UNCHANGED <<is_open, daily_revenue, total_revenue, orders, id_counter, customer>>

\* CafeManager.auto_assign_orders
auto_assign_orders ==
    /\ LET r == AutoAssign(order, barista, pending_orders, get_available_baristas(barista)) IN
       /\ Called("auto_assign_orders", 0, None, r.ok)
       /\ order' = r.ords
       /\ barista' = r.bars
       /\ pending_orders' = r.pend
    /\ UNCHANGED <<is_open, daily_revenue, total_revenue, orders, id_counter, customer>>

\* CafeManager.complete_order
complete_order(id) ==
    LET o == get_order_by_id(orders, id)
        Fails == Called("complete_order", id, None, FALSE) /\ Unchanged
    IN
    IF ~Truthy(order, o) THEN Fails
    ELSE IF order[o].barista = None THEN Fails
    ELSE LET b == order[o].barista
             r == barista_complete_order(barista[b], order)
         IN
         IF ~r.ok THEN Fails
         ELSE LET d == mark_as_delivered(r.ords[o])
                  c == r.ords[o].customer
              IN
              /\ Called("complete_order", id, b, d.ok)
              /\ barista' = [barista EXCEPT ![b] = r.self]
              /\ order' = [r.ords EXCEPT ![o] = d.self]
              /\ customer' = (IF d.ok
                              THEN [customer EXCEPT
                                      ![c] = Delivered_customer(@, c, o, d.self)]
                              ELSE customer)
              /\ daily_revenue' = (IF d.ok THEN daily_revenue + total_price(d.self)
                                   ELSE daily_revenue)
              /\ UNCHANGED <<is_open, total_revenue, orders, pending_orders, id_counter>>

\* CafeManager.cancel_order
cancel_order(id) ==
    LET o == get_order_by_id(orders, id)
        Fails == Called("cancel_order", id, None, FALSE) /\ Unchanged
    IN
    IF ~Truthy(order, o) THEN Fails
    ELSE LET r == cancel(order[o]) IN
         IF ~r.ok THEN Fails
         ELSE LET c == r.self.customer
                  a == add_balance(customer[c], total_price(r.self))
              IN
              /\ Called("cancel_order", id, None, a.ok)
              /\ order' = [order EXCEPT ![o] = Priced(r.self)]
              /\ customer' = [customer EXCEPT ![c] = a.self]
              /\ pending_orders' = (IF a.ok /\ o \in Range(pending_orders)
                                    THEN ListRemove(pending_orders, o)
                                    ELSE pending_orders)
              /\ UNCHANGED <<is_open, daily_revenue, total_revenue, orders, id_counter,
                             barista>>

\* ------------------------------------------------------------ calls on the objects
\* the quantities a caller passes to add_item
Quantities == 0..MaxQty

\* Order.add_item on a constructed order
order_add_item(o, d, q) ==
    /\ o \in 1..id_counter
    /\ LET r == add_item(order[o], d, q) IN
       /\ \A i \in 1..Len(r.self.items) : r.self.items[i].qty <= MaxQty
       /\ Called("add_item", o, None, r.ok)
       /\ order' = [order EXCEPT ![o] = r.self]
    /\ UNCHANGED <<ledger, id_counter, customer, barista>>

\* Order.remove_item on a constructed order
order_remove_item(o, d) ==
    /\ o \in 1..id_counter
    /\ LET r == remove_item(order[o], d) IN
       /\ Called("remove_item", o, None, r.ok)
       /\ order' = [order EXCEPT ![o] = r.self]
    /\ UNCHANGED <<ledger, id_counter, customer, barista>>

\* Order.clear_items on a constructed order
order_clear_items(o) ==
    /\ o \in 1..id_counter
    /\ LET r == clear_items(order[o]) IN
       /\ Called("clear_items", o, None, r.ok)
       /\ order' = [order EXCEPT ![o] = r.self]
    /\ UNCHANGED <<ledger, id_counter, customer, barista>>

\* Order.start_preparation called on a constructed order
order_start_preparation(o, b) ==
    /\ o \in 1..id_counter
    /\ LET r == start_preparation(order[o], b) IN
       /\ Called("start_preparation", o, b, r.ok)
       /\ order' = [order EXCEPT ![o] = r.self]
    /\ UNCHANGED <<ledger, id_counter, customer, barista>>

\* Order.mark_as_ready called on a constructed order
order_mark_as_ready(o) ==
    /\ o \in 1..id_counter
    /\ LET r == mark_as_ready(order[o]) IN
       /\ Called("mark_as_ready", o, None, r.ok)
       /\ order' = [order EXCEPT ![o] = r.self]
    /\ UNCHANGED <<ledger, id_counter, customer, barista>>

\* Order.mark_as_delivered called on a constructed order
order_mark_as_delivered(o) ==
    /\ o \in 1..id_counter
    /\ LET r == mark_as_delivered(order[o])
           c == order[o].customer
       IN
       /\ Called("mark_as_delivered", o, None, r.ok)
       /\ order' = [order EXCEPT ![o] = r.self]
       /\ customer' = (IF r.ok
                       THEN [customer EXCEPT ![c] = Delivered_customer(@, c, o, r.self)]
                       ELSE customer)
    /\ UNCHANGED <<ledger, id_counter, barista>>

\* Order.cancel called on a constructed order
order_cancel(o) ==
    /\ o \in 1..id_counter
    /\ LET r == cancel(order[o]) IN
       /\ Called("cancel", o, None, r.ok)
       /\ order' = [order EXCEPT ![o] = r.self]
    /\ UNCHANGED <<ledger, id_counter, customer, barista>>

\* a read of Order.total_price on a constructed order: it writes the discount cache
order_total_price(o) ==
    /\ o \in 1..id_counter
    /\ Called("total_price", o, None, TRUE)
    /\ order' = [order EXCEPT ![o] = Priced(order[o])]
    /\ UNCHANGED <<ledger, id_counter, customer, barista>>

\* Barista.start_shift
barista_start_shift(b) ==
    /\ LET r == start_shift(barista[b]) IN
       /\ Called("start_shift", 0, b, r.ok)
       /\ barista' = [barista EXCEPT ![b] = r.self]
    /\ UNCHANGED <<ledger, id_counter, order, customer>>

\* Barista.end_shift
barista_end_shift(b) ==
    /\ LET r == end_shift(barista[b], order) IN
       /\ Called("end_shift", 0, b, r.ok)
       /\ barista' = [barista EXCEPT ![b] = r.self]
    /\ UNCHANGED <<ledger, id_counter, order, customer>>

\* the amounts a caller passes to add_balance
Amounts == {0 - 5600, 5600}

\* Customer.add_balance called on a registered customer
customer_add_balance(c, a) ==
    /\ LET r == add_balance(customer[c], a) IN
       /\ r.self.balance <= MaxBalance
       /\ Called("add_balance", 0, c, r.ok)
       /\ customer' = [customer EXCEPT ![c] = r.self]
    /\ UNCHANGED <<ledger, id_counter, order, barista>>

\* CafeManager.get_dashboard_statistics: counts and copies, no write
get_dashboard_statistics ==
    /\ Called("get_dashboard_statistics", 0, None, TRUE)
    /\ Unchanged

\* CafeManager.get_best_selling_drinks: reads the lines of the Delivered orders
get_best_selling_drinks ==
    /\ Called("get_best_selling_drinks", 0, None, TRUE)
    /\ Unchanged

\* CafeManager.get_top_customers: reads total_price of every Delivered order of the
\* log, and each read writes that order's discount cache
get_top_customers ==
    /\ Called("get_top_customers", 0, None, TRUE)
    /\ order' = [o \in OrderIds |->
                   IF o \in Range(orders) /\ order[o].status = DELIVERED
                   THEN Priced(order[o]) ELSE order[o]]
    /\ UNCHANGED <<ledger, id_counter, customer, barista>>

\* ------------------------------------------------------------ registry and data file
\* ids a class counter may reach in one run of the program
MaxId == 5
\* loyalty points a customer is given by direct calls
MaxPoints == 30

\* the class register_customer constructs for a customer_type, None when it raises
CustomerClass(customer_type) ==
    CASE customer_type \in {"Regular", "regular"} -> "RegularCustomer"
      [] customer_type \in {"Premium", "premium"} -> "PremiumCustomer"
      [] customer_type \in {"VIP", "vip"} -> "VIPCustomer"
      [] OTHER -> None

\* get_customer_by_email that compares the emails as they are written
get_customer_by_email_m(list, email) ==
    LET found == {i \in 1..Len(list) : list[i].email = email} IN
    IF found = {} THEN 0 ELSE CHOOSE i \in found : \A j \in found : i <= j

\* CafeManager.get_customer_by_email, and the loops of hire_barista and
\* fire_barista: the place of the first entry with the email, 0 for None
get_customer_by_email(list, email) ==
    LET found == {i \in 1..Len(list) : Lower(list[i].email) = Lower(email)} IN
    IF found = {} THEN 0 ELSE CHOOSE i \in found : \A j \in found : i <= j

\* list.remove of the entry at a place
RemoveAt(list, i) ==
    [j \in 1..(Len(list) - 1) |-> IF j < i THEN list[j] ELSE list[j + 1]]

\* CafeManager.register_customer; n is the name of the new object
register_customer(n, email, customer_type, initial_balance) ==
    IF \/ get_customer_by_email(customers, email) # 0
       \/ CustomerClass(customer_type) = None
    THEN Recorded("register_customer", 0, email, FALSE) /\ Unchanged /\ UNCHANGED registry
    ELSE /\ customer_id_counter <= MaxId
         /\ \A i \in 1..Len(customers) : customers[i].name # n
         /\ Recorded("register_customer", 0, email, TRUE)
         /\ customers' = Append(customers,
                                [name |-> n, id |-> customer_id_counter, email |-> email,
                                 type |-> CustomerClass(customer_type)])
         /\ customer' = [customer EXCEPT ![n] = NewCustomerObject(initial_balance)]
         /\ customer_id_counter' = customer_id_counter + 1
         /\ UNCHANGED <<ledger, id_counter, order, barista, baristas, barista_id_counter>>

\* CafeManager.remove_customer: returns False when nobody has the email
remove_customer(email) ==
    LET i == get_customer_by_email(customers, email) IN
    /\ Recorded("remove_customer", 0, email, i # 0)
    /\ customers' = (IF i = 0 THEN customers ELSE RemoveAt(customers, i))
    /\ Unchanged
    /\ UNCHANGED <<baristas, customer_id_counter, barista_id_counter>>

\* CafeManager.hire_barista; n is the name of the new object
hire_barista(n, email, experience_years, hourly_rate) ==
    IF get_customer_by_email(baristas, email) # 0
    THEN Recorded("hire_barista", 0, email, FALSE) /\ Unchanged /\ UNCHANGED registry
    ELSE /\ barista_id_counter <= MaxId
         /\ \A i \in 1..Len(baristas) : baristas[i].name # n
         /\ Recorded("hire_barista", 0, email, TRUE)
         /\ baristas' = Append(baristas,
                               [name |-> n, id |-> barista_id_counter, email |-> email,
                                experience_years |-> experience_years,
                                hourly_rate |-> hourly_rate])
         /\ barista' = [barista EXCEPT ![n] = NewBaristaObject]
         /\ barista_id_counter' = barista_id_counter + 1
         /\ UNCHANGED <<ledger, id_counter, order, customer, customers, customer_id_counter>>

\* CafeManager.fire_barista: raises for a barista on duty, returns False when
\* nobody has the email
fire_barista(email) ==
    LET i == get_customer_by_email(baristas, email) IN
    /\ Recorded("fire_barista", 0, email, i # 0 /\ ~barista[baristas[i].name].is_on_duty)
    /\ baristas' = (IF i # 0 /\ ~barista[baristas[i].name].is_on_duty
                    THEN RemoveAt(baristas, i) ELSE baristas)
    /\ Unchanged
    /\ UNCHANGED <<customers, customer_id_counter, barista_id_counter>>

\* Customer.earn_loyalty_points called on a registered customer
customer_earn_loyalty_points(c, amount) ==
    /\ customer[c].loyalty_points + loyalty_points_for(c, amount) <= MaxPoints
    /\ Called("earn_loyalty_points", 0, c, TRUE)
    /\ customer' = [customer EXCEPT
                      ![c].loyalty_points = @ + loyalty_points_for(c, amount)]
    /\ UNCHANGED <<ledger, id_counter, order, barista>>

\* Customer.to_dict and Barista.to_dict of the entry e whose object is obj
customer_to_dict(e, obj) ==
    [id |-> e.id, name |-> e.name, email |-> e.email, balance |-> obj.balance,
     loyalty_points |-> obj.loyalty_points, order_history |-> obj.order_history,
     type |-> e.type]
barista_to_dict(e, obj) ==
    [id |-> e.id, name |-> e.name, email |-> e.email,
     experience_years |-> e.experience_years, hourly_rate |-> e.hourly_rate,
     total_orders_completed |-> Len(obj.orders_completed),
     is_on_duty |-> obj.is_on_duty]

\* CafeManager._save_data: what the data file holds after it
save_data ==
    [total_revenue |-> total_revenue,
     customers |-> [i \in 1..Len(customers) |->
                      customer_to_dict(customers[i], customer[customers[i].name])],
     baristas |-> [i \in 1..Len(baristas) |->
                     barista_to_dict(baristas[i], barista[baristas[i].name])]]

\* CafeManager._load_data in a new process, from a data file: the class
\* counters start at 1, every object is constructed again from its name, email,
\* balance and class, or from its name, email, experience and rate
load_data(data) ==
    [total_revenue |-> data.total_revenue,
     customers |-> [i \in 1..Len(data.customers) |->
                      [name |-> data.customers[i].name, id |-> i,
                       email |-> data.customers[i].email,
                       type |-> IF data.customers[i].type = "PremiumCustomer"
                                THEN "PremiumCustomer"
                                ELSE IF data.customers[i].type = "VIPCustomer"
                                THEN "VIPCustomer"
                                ELSE "RegularCustomer"]],
     customer |-> [n \in CustomerNames |->
                     LET found == {i \in 1..Len(data.customers) : data.customers[i].name = n}
                     IN IF found = {} THEN NewCustomerObject(0)
                        ELSE NewCustomerObject(data.customers[CHOOSE i \in found : TRUE].balance)],
     baristas |-> [i \in 1..Len(data.baristas) |->
                     [name |-> data.baristas[i].name, id |-> i,
                      email |-> data.baristas[i].email,
                      experience_years |-> data.baristas[i].experience_years,
                      hourly_rate |-> data.baristas[i].hourly_rate]],
     barista |-> [n \in BaristaNames |-> NewBaristaObject]]

\* the program ends after a close_cafe that saved the data, and is started
\* again: CafeManager.__init__ reads the file that close_cafe wrote
restart ==
    /\ last.op = "close_cafe" /\ last.ok
    /\ LET loaded == load_data(save_data) IN
       /\ Recorded("restart", 0, None, TRUE)
       /\ is_open' = FALSE
       /\ daily_revenue' = 0
       /\ total_revenue' = loaded.total_revenue
       /\ orders' = <<>>
       /\ pending_orders' = <<>>
       /\ id_counter' = 0
       /\ order' = [o \in OrderIds |-> NewOrder]
       /\ customers' = loaded.customers
       /\ customer' = loaded.customer
       /\ baristas' = loaded.baristas
       /\ barista' = loaded.barista
       /\ customer_id_counter' = Len(loaded.customers) + 1
       /\ barista_id_counter' = Len(loaded.baristas) + 1

\* ------------------------------------------------------------ specifications
\* Spec: the ledger's commands on up to MaxOrders orders of the Ordering customers,
\* each cart filled with MaxQty of one drink, and the calls the presentation layer
\* makes on the objects
Next ==
    \/ open_cafe
    \/ close_cafe
    \/ \E c \in Ordering : id_counter < MaxOrders /\ create_order(c)
    \/ \E o \in OrderIds : submit_order(o)
    \/ \E o \in OrderIds, b \in Baristas : assign_order_to_barista(o, b)
    \/ auto_assign_orders
    \/ \E id \in OrderIds : complete_order(id)
    \/ \E id \in OrderIds : cancel_order(id)
    \/ \E o \in OrderIds, q \in {0, MaxQty} : order_add_item(o, Latte, q)
    \/ \E o \in OrderIds : order_remove_item(o, Latte)
    \/ \E o \in OrderIds : order_clear_items(o)
    \/ \E b \in Baristas : barista_start_shift(b)
    \/ \E b \in Baristas : barista_end_shift(b)

Spec == Init /\ [][Next]_vars

\* SpecOrder: the Order class on its own: up to MaxDirect orders constructed for any
\* customer, and its methods called directly, in any order, with every drink and
\* quantity
NextOrder ==
    \/ \E c \in Customers : id_counter < MaxDirect /\ order_new(c)
    \/ \E o \in OrderIds, d \in Drinks, q \in Quantities : order_add_item(o, d, q)
    \/ \E o \in OrderIds, d \in Drinks : order_remove_item(o, d)
    \/ \E o \in OrderIds : order_clear_items(o)
    \/ \E o \in OrderIds, b \in Baristas : order_start_preparation(o, b)
    \/ \E o \in OrderIds : order_mark_as_ready(o)
    \/ \E o \in OrderIds : order_mark_as_delivered(o)
    \/ \E o \in OrderIds : order_cancel(o)

SpecOrder == Init /\ [][NextOrder]_vars

\* SpecPrice: the pricing of one cart: an order of any customer, filled and emptied
\* with drinks of the three sizes, its total_price read at any moment
NextPrice ==
    \/ \E c \in Customers : id_counter < MaxDirect /\ order_new(c)
    \/ \E o \in OrderIds, d \in SizedDrinks, q \in Quantities : order_add_item(o, d, q)
    \/ \E o \in OrderIds, d \in SizedDrinks : order_remove_item(o, d)
    \/ \E o \in OrderIds : order_clear_items(o)
    \/ \E o \in OrderIds : order_total_price(o)

SpecPrice == Init /\ [][NextPrice]_vars

\* SpecTill: one customer's money and the reports: the VIP customer's orders are
\* filled, paid, cancelled or prepared by one worker and delivered, the balance is
\* topped up, and the reporting queries are run at any moment
NextTill ==
    \/ open_cafe
    \/ id_counter < MaxOrders /\ create_order("can")
    \/ \E o \in OrderIds : order_add_item(o, Latte, MaxQty)
    \/ \E o \in OrderIds : order_remove_item(o, Latte)
    \/ \E o \in OrderIds : submit_order(o)
    \/ \E id \in OrderIds : cancel_order(id)
    \/ barista_start_shift("ayse")
    \/ \E o \in OrderIds : assign_order_to_barista(o, "ayse")
    \/ \E id \in OrderIds : complete_order(id)
    \/ \E a \in Amounts : customer_add_balance("can", a)
    \/ get_dashboard_statistics
    \/ get_best_selling_drinks
    \/ get_top_customers

SpecTill == Init /\ [][NextTill]_vars

\* the emails, customer types, experience years and rates that callers pass
CustomerEmails == {"ALI@EMAIL.COM", "yeni@email.com"}
BaristaEmails == {"Ayse@Cafe.com", "elif@cafe.com"}
CustomerTypes == {"VIP", "Gold"}

\* the registry: registrations, removals, and a restart after the cafe closed
NextRegistry ==
    \/ open_cafe
    \/ close_cafe
    \/ restart
    \/ \E e \in CustomerEmails, t \in CustomerTypes : register_customer(NewCustomer, e, t, 0)
    \/ \E e \in CustomerEmails \cup {"ali@email.com"} : remove_customer(e)
    \/ \E e \in BaristaEmails : hire_barista(NewBarista, e, 0, 5000)
    \/ \E e \in BaristaEmails : fire_barista(e)
    \/ barista_start_shift("ayse")
    \/ customer_earn_loyalty_points("can", 5600)

SpecRegistry == Init /\ [][NextRegistry]_vars

\* SpecRefund: one order of the Premium customer, whose balance at construction
\* is known: the order is filled, paid, changed, taken into preparation and
\* cancelled
NextRefund ==
    \/ open_cafe
    \/ id_counter < MaxDirect /\ create_order("zeynep")
    \/ \E o \in OrderIds, q \in 1..MaxQty : order_add_item(o, Latte, q)
    \/ \E o \in OrderIds : order_remove_item(o, Latte)
    \/ \E o \in OrderIds : order_clear_items(o)
    \/ \E o \in OrderIds : submit_order(o)
    \/ \E id \in OrderIds : cancel_order(id)
    \/ barista_start_shift("ayse")
    \/ \E o \in OrderIds : assign_order_to_barista(o, "ayse")

SpecRefund == Init /\ [][NextRefund]_vars

\* SpecLive: the VIP customer's orders are filled, paid and cancelled at any
\* moment, one worker starts a shift and never ends it, and auto_assign_orders
\* and complete_order are called again and again
NextLive ==
    \/ open_cafe
    \/ id_counter < MaxOrders /\ create_order("can")
    \/ \E o \in OrderIds : order_add_item(o, Latte, MaxQty)
    \/ \E o \in OrderIds : submit_order(o)
    \/ barista_start_shift("ayse")
    \/ auto_assign_orders
    \/ \E id \in OrderIds : complete_order(id)
    \/ \E id \in OrderIds : cancel_order(id)

\* the caller keeps calling auto_assign_orders, and complete_order for every order
Fairness ==
    /\ WF_vars(auto_assign_orders)
    /\ \A id \in OrderIds : WF_vars(complete_order(id))

SpecLive == Init /\ [][NextLive]_vars /\ Fairness

\* ------------------------------------------------------------ properties
Terminal == {DELIVERED, CANCELLED}

\* the order the last call was made on, as it was before and as it is now
Before == pre.order[last.arg]
After == order[last.arg]

\* C1: an order enters Preparing only from Pending, Ready only from Preparing and
\* Delivered only from Ready; start_preparation, mark_as_ready and
\* mark_as_delivered called in any other status fail and leave the status as it was.
C1_ForwardTransitionsLinear ==
    /\ \A o \in OrderIds :
         LET was == pre.order[o].status
             now == order[o].status
         IN /\ (now = PREPARING /\ was # PREPARING) => was = PENDING
            /\ (now = READY /\ was # READY) => was = PREPARING
            /\ (now = DELIVERED /\ was # DELIVERED) => was = READY
    /\ (last.op = "start_preparation" /\ Before.status # PENDING)
         => ~last.ok /\ After.status = Before.status
    /\ (last.op = "mark_as_ready" /\ Before.status # PREPARING)
         => ~last.ok /\ After.status = Before.status
    /\ (last.op = "mark_as_delivered" /\ Before.status # READY)
         => ~last.ok /\ After.status = Before.status

\* C1 witness: mark_as_delivered was called on an order still in preparation and failed
C1_Witness ==
    /\ last.op = "mark_as_delivered"
    /\ ~last.ok
    /\ Before.status = PREPARING
    /\ After.status = PREPARING

\* C2: cancel() on an order whose status is Ready fails and leaves it Ready, so no
\* order ever goes from Ready to Cancelled.
C2_NoCancelFromReady ==
    /\ \A o \in OrderIds : ~(pre.order[o].status = READY /\ order[o].status = CANCELLED)
    /\ (last.op = "cancel" /\ Before.status = READY) => ~last.ok /\ After.status = READY

\* C2 failing input: an order that start_preparation and mark_as_ready have made Ready
C2_ReadyReached == \E o \in OrderIds : order[o].status = READY

\* C3: complete_order(id) succeeds only when the order is Preparing and is the
\* current_order of its assigned worker; in every other case it fails and changes
\* no order's status and no worker's current_order.
C3_CompleteOnlyOwnPreparing ==
    last.op = "complete_order" =>
        LET held == /\ last.arg \in Range(pre.orders)
                    /\ Before.status = PREPARING
                    /\ Before.barista # None
                    /\ pre.barista[Before.barista].current_order = last.arg
        IN ~held =>
             /\ ~last.ok
             /\ \A o \in OrderIds : order[o].status = pre.order[o].status
             /\ \A b \in Baristas : barista[b].current_order = pre.barista[b].current_order

\* the commands of the ledger named by C4
LedgerCommands ==
    {"submit_order", "assign_order_to_barista", "auto_assign_orders", "complete_order",
     "cancel_order", "open_cafe", "close_cafe"}

\* C4: a ledger command that fails leaves balances, points, duty flags, current
\* orders, order statuses, the order log, the pending queue, the revenue counters
\* and the open flag as they were before the call.
C4_FailedCommandChangesNothing ==
    (last.op \in LedgerCommands /\ ~last.ok) =>
        /\ \A c \in Customers :
             /\ customer[c].balance = pre.customer[c].balance
             /\ customer[c].loyalty_points = pre.customer[c].loyalty_points
        /\ \A b \in Baristas :
             /\ barista[b].is_on_duty = pre.barista[b].is_on_duty
             /\ barista[b].current_order = pre.barista[b].current_order
        /\ \A o \in OrderIds : order[o].status = pre.order[o].status
        /\ orders = pre.orders
        /\ pending_orders = pre.pending_orders
        /\ daily_revenue = pre.daily_revenue
        /\ total_revenue = pre.total_revenue
        /\ is_open = pre.is_open

\* C5: add_item, remove_item and clear_items called on an order that is not Pending
\* fail and leave its lines unchanged.
C5_ItemsChangeOnlyWhilePending ==
    (last.op \in {"add_item", "remove_item", "clear_items"} /\ Before.status # PENDING)
        => ~last.ok /\ After.items = Before.items

\* C6: a successful cancel_order on a Pending or Preparing order sets it Cancelled,
\* adds exactly the order's total_price to the customer's balance, and leaves the
\* order absent from the pending queue.
C6_CancelRefundsAndDequeues ==
    (last.op = "cancel_order" /\ last.ok /\ Before.status \in {PENDING, PREPARING}) =>
        /\ After.status = CANCELLED
        /\ customer[Before.customer].balance =
               pre.customer[Before.customer].balance + total_price(Before)
        /\ last.arg \notin Range(pending_orders)

\* C7: cancel_order on an order that is already Delivered or Cancelled fails and
\* leaves every customer's balance, the order's status and the pending queue as
\* they were.
C7_CancelTerminalFails ==
    (last.op = "cancel_order" /\ Before.status \in Terminal) =>
        /\ ~last.ok
        /\ \A c \in Customers : customer[c].balance = pre.customer[c].balance
        /\ After.status = Before.status
        /\ pending_orders = pre.pending_orders

\* C7 witness: cancel_order found a Delivered order with lines in the log and failed
C7_Witness ==
    /\ last.op = "cancel_order"
    /\ ~last.ok
    /\ last.arg \in Range(pre.orders)
    /\ Before.items # <<>>
    /\ Before.status = DELIVERED

\* C8: once an order is Delivered or Cancelled its status never changes again,
\* start_preparation, mark_as_ready, mark_as_delivered and cancel all fail on it,
\* and it stays in the order log.
C8_TerminalIsFinal ==
    \A o \in OrderIds :
        /\ pre.order[o].status \in Terminal =>
             /\ order[o].status = pre.order[o].status
             /\ o \in Range(pre.orders) => o \in Range(orders)
        /\ order[o].status \in Terminal =>
             /\ \A b \in Baristas : ~start_preparation(order[o], b).ok
             /\ ~mark_as_ready(order[o]).ok
             /\ ~mark_as_delivered(order[o]).ok
             /\ ~cancel(order[o]).ok

\* C8 witness: a command was run on a logged order that was already Cancelled
C8_Witness ==
    /\ last.op \in {"cancel_order", "complete_order", "assign_order_to_barista"}
    /\ last.arg \in Range(pre.orders)
    /\ Before.status = CANCELLED
    /\ Before.items # <<>>

\* C9: submit_order fails when the cafe is closed, the order has no items, or the
\* payment fails; when it succeeds the customer has been debited total_price and
\* the order has been appended to the order log and to the tail of the queue.
C9_SubmitOrder ==
    last.op = "submit_order" =>
        LET c == Before.customer
            total == total_price(Before)
        IN /\ (~pre.is_open \/ Before.items = <<>> \/ total > pre.customer[c].balance)
                 => ~last.ok
           /\ last.ok =>
                 /\ customer[c].balance = pre.customer[c].balance - total
                 /\ orders = Append(pre.orders, last.arg)
                 /\ pending_orders = Append(pre.pending_orders, last.arg)

\* C9 witness: the VIP customer with 100.00 was debited 56.00 by a submit_order
C9_Witness ==
    /\ last.op = "submit_order"
    /\ last.ok
    /\ Before.customer = "can"
    /\ pre.customer["can"].balance = 10000
    /\ customer["can"].balance = 4400

\* the call C10 is about: submit_order of an order with lines, in an open cafe, for
\* a customer whose balance is lower than the order's total_price
ShortOfFunds ==
    /\ last.op = "submit_order"
    /\ pre.is_open
    /\ Before.items # <<>>
    /\ pre.customer[Before.customer].balance < total_price(Before)

\* C10 as stated: with a balance lower than the total, submit_order fails, the
\* balance is unchanged, and the order is in neither the pending queue nor the log.
C10_AsStated ==
    ShortOfFunds =>
        /\ ~last.ok
        /\ customer[Before.customer].balance = pre.customer[Before.customer].balance
        /\ last.arg \notin Range(pending_orders)
        /\ last.arg \notin Range(orders)

\* C10 as amended: with a balance lower than the total, submit_order fails and
\* leaves every balance, the pending queue and the order log unchanged, so that an
\* order no earlier submit_order had accepted is in neither.
C10_InsufficientFunds ==
    ShortOfFunds =>
        /\ ~last.ok
        /\ \A c \in Customers : customer[c].balance = pre.customer[c].balance
        /\ pending_orders = pre.pending_orders
        /\ orders = pre.orders
        /\ last.arg \notin Range(pre.orders) =>
             /\ last.arg \notin Range(pending_orders)
             /\ last.arg \notin Range(orders)

\* C10 witness: the Regular customer with 10.00 submitted a first order and failed
C10_Witness ==
    /\ ShortOfFunds
    /\ ~last.ok
    /\ CustomerType[Before.customer] = "RegularCustomer"
    /\ customer[Before.customer].balance = 1000
    /\ last.arg \notin Range(orders)

\* a queue without any entry for order o, the other entries in their order
Without(q, o) == SelectSeq(q, LAMBDA x : x # o)

\* C11: a successful assign_order_to_barista(order, worker) puts the order in
\* Preparing with that worker as its barista, sets the worker's current_order to the
\* order, and leaves the pending queue without the order, the other queued orders
\* in their relative order.
C11_AssignEffects ==
    (last.op = "assign_order_to_barista" /\ last.ok) =>
        /\ After.status = PREPARING
        /\ After.barista = last.who
        /\ barista[last.who].current_order = last.arg
        /\ pending_orders = Without(pre.pending_orders, last.arg)

\* C12: assign_order_to_barista onto a worker that is off duty or holds a current
\* order fails and leaves the pending queue, the order's status and the worker's
\* current_order unchanged; no step replaces a current_order that is set by
\* another order.
C12_AssignToUnavailableFails ==
    /\ (/\ last.op = "assign_order_to_barista"
        /\ (~pre.barista[last.who].is_on_duty \/ pre.barista[last.who].current_order # 0))
         => /\ ~last.ok
            /\ pending_orders = pre.pending_orders
            /\ After.status = Before.status
            /\ barista[last.who].current_order = pre.barista[last.who].current_order
    /\ \A b \in Baristas :
         pre.barista[b].current_order # 0 =>
             barista[b].current_order \in {0, pre.barista[b].current_order}

\* C12 witness: a queued order was assigned to an on-duty worker holding another
\* order, and the call failed
C12_Witness ==
    /\ last.op = "assign_order_to_barista"
    /\ ~last.ok
    /\ last.arg \in Range(pre.pending_orders)
    /\ pre.barista[last.who].is_on_duty
    /\ pre.barista[last.who].current_order \notin {0, last.arg}

\* C13: assign_order_to_barista for an order that is not in the pending queue fails
\* and changes neither the order nor any worker nor the queue.
C13_AssignNotQueuedFails ==
    (last.op = "assign_order_to_barista" /\ last.arg \notin Range(pre.pending_orders)) =>
        /\ ~last.ok
        /\ order = pre.order
        /\ barista = pre.barista
        /\ pending_orders = pre.pending_orders

\* C13 witness: an order already assigned (Preparing, out of the queue) was assigned
\* again to a worker that is available, and the call failed
C13_Witness ==
    /\ last.op = "assign_order_to_barista"
    /\ ~last.ok
    /\ Before.status = PREPARING
    /\ last.arg \notin Range(pre.pending_orders)
    /\ is_available(pre.barista[last.who])

\* the smaller of two numbers
Min(a, b) == IF a < b THEN a ELSE b

\* C14: auto_assign_orders with N pending orders and M available workers assigns
\* exactly min(N, M) orders: the k-th order from the head of the queue goes to the
\* k-th available worker in registration order and the remaining orders keep their
\* queue order.
C14_AutoAssignMinNM ==
    last.op = "auto_assign_orders" =>
        LET avail == get_available_baristas(pre.barista)
            N == Len(pre.pending_orders)
            k == Min(N, Len(avail))
        IN /\ last.ok
           /\ \A i \in 1..k :
                /\ order[pre.pending_orders[i]].status = PREPARING
                /\ order[pre.pending_orders[i]].barista = avail[i]
                /\ barista[avail[i]].current_order = pre.pending_orders[i]
           /\ pending_orders = SubSeq(pre.pending_orders, k + 1, N)
           /\ \A b \in Baristas :
                (\A i \in 1..k : avail[i] # b) => barista[b] = pre.barista[b]

\* C15: a successful complete_order(id) leaves the order Delivered, clears its
\* worker's current_order (so the worker is available again if on duty), appends
\* exactly one completion entry to that worker's log, and increases daily revenue
\* by exactly the order's total_price.
C15_CompleteEffects ==
    (last.op = "complete_order" /\ last.ok) =>
        LET b == Before.barista
            log == barista[b].orders_completed
            was == pre.barista[b].orders_completed
        IN /\ After.status = DELIVERED
           /\ barista[b].current_order = 0
           /\ barista[b].is_on_duty => is_available(barista[b])
           /\ Len(log) = Len(was) + 1
           /\ SubSeq(log, 1, Len(was)) = was
           /\ daily_revenue = pre.daily_revenue + total_price(Before)

\* C15 witness: a worker's current order was completed and revenue was earned
C15_Witness ==
    /\ last.op = "complete_order"
    /\ last.ok
    /\ pre.barista[last.who].current_order = last.arg
    /\ Before.status = PREPARING
    /\ daily_revenue > pre.daily_revenue

\* the multiplier of a customer's tier: Regular 1, Premium 2, VIP 3
TierMultiplier(c) ==
    CASE CustomerType[c] = "RegularCustomer" -> 1
      [] CustomerType[c] = "PremiumCustomer" -> 2
      [] CustomerType[c] = "VIPCustomer" -> 3

\* the orders of customer c that the last step made Delivered
JustDelivered(c) ==
    {o \in OrderIds : /\ order[o].customer = c
                      /\ order[o].status = DELIVERED
                      /\ pre.order[o].status # DELIVERED}

\* C16: when an order becomes Delivered its customer gains exactly
\* floor(total_price / 10) x tier multiplier points and exactly one history entry;
\* a step that delivers no order of a customer leaves that customer's points and
\* history unchanged.
C16_LoyaltyOnDelivery ==
    \A c \in Customers :
        IF JustDelivered(c) = {}
        THEN /\ customer[c].loyalty_points = pre.customer[c].loyalty_points
             /\ customer[c].order_history = pre.customer[c].order_history
        ELSE \E o \in JustDelivered(c) :
             /\ JustDelivered(c) = {o}
             /\ customer[c].loyalty_points =
                    pre.customer[c].loyalty_points
                    + (total_price(order[o]) \div 1000) * TierMultiplier(c)
             /\ Len(customer[c].order_history) = Len(pre.customer[c].order_history) + 1
             /\ SubSeq(customer[c].order_history, 1, Len(pre.customer[c].order_history))
                    = pre.customer[c].order_history

\* C16 witness: a Premium customer's order whose total is not a multiple of 10.00
\* was delivered and earned points
C16_Witness ==
    /\ last.op = "mark_as_delivered"
    /\ last.ok
    /\ CustomerType[After.customer] = "PremiumCustomer"
    /\ total_price(After) % 1000 # 0
    /\ customer[After.customer].loyalty_points > 0

\* C17: close_cafe called on an open cafe leaves the cafe closed and every worker
\* off duty, whatever orders are pending or in preparation.
C17_CloseAlwaysCloses ==
    (last.op = "close_cafe" /\ pre.is_open) =>
        /\ ~is_open
        /\ \A b \in Baristas : ~barista[b].is_on_duty

\* C18: a successful close_cafe increases total_revenue by exactly the daily
\* revenue and leaves the pending queue and the order log unchanged; a successful
\* open_cafe sets daily_revenue to zero and leaves total_revenue unchanged.
C18_RevenueRollover ==
    /\ (last.op = "close_cafe" /\ last.ok) =>
         /\ total_revenue = pre.total_revenue + pre.daily_revenue
         /\ pending_orders = pre.pending_orders
         /\ orders = pre.orders
    /\ (last.op = "open_cafe" /\ last.ok) =>
         /\ daily_revenue = 0
         /\ total_revenue = pre.total_revenue

\* C18 witness: the cafe was opened again after a day whose revenue had been
\* rolled into the total
C18_Witness ==
    /\ last.op = "open_cafe"
    /\ last.ok
    /\ pre.daily_revenue > 0
    /\ pre.total_revenue = pre.daily_revenue
    /\ daily_revenue = 0

\* C19: start_shift fails when the worker is on duty, end_shift fails when the
\* worker is off duty or holds a current order, and in each of these cases the
\* worker's duty flag and current order are unchanged.
C19_ShiftFailures ==
    /\ (last.op = "start_shift" /\ pre.barista[last.who].is_on_duty) =>
         ~last.ok /\ barista[last.who] = pre.barista[last.who]
    /\ (/\ last.op = "end_shift"
        /\ (~pre.barista[last.who].is_on_duty \/ pre.barista[last.who].current_order # 0))
         => ~last.ok /\ barista[last.who] = pre.barista[last.who]

\* base price x size multiplier x quantity of one line
LineTotal(l) ==
    LET tenths == CASE l.drink.size = "Small" -> 8
                    [] l.drink.size = "Medium" -> 10
                    [] l.drink.size = "Large" -> 13
    IN (l.drink.price * tenths * l.qty) \div 10

\* the sum of the first n lines
RECURSIVE LinesTotal(_, _)
LinesTotal(items, n) == IF n = 0 THEN 0 ELSE LinesTotal(items, n - 1) + LineTotal(items[n])

\* the discount percentage of a customer's tier: Regular 0, Premium 10, VIP 20
TierPercent(c) ==
    CASE CustomerType[c] = "RegularCustomer" -> 0
      [] CustomerType[c] = "PremiumCustomer" -> 10
      [] CustomerType[c] = "VIPCustomer" -> 20

\* C20: after any sequence of add_item, remove_item and clear_items, total_price
\* equals the subtotal of the current lines (base price x size multiplier x
\* quantity, summed) minus 0%, 10% or 20% of that subtotal for Regular, Premium,
\* VIP; a read of total_price changes neither the lines nor the next total_price.
C20_TotalPrice ==
    /\ \A o \in 1..id_counter :
         LET S == LinesTotal(order[o].items, Len(order[o].items))
         IN /\ calculate_subtotal(order[o]) = S
            /\ total_price(order[o]) = S - (S * TierPercent(order[o].customer)) \div 100
            /\ total_price(Priced(order[o])) = total_price(order[o])
    /\ last.op = "total_price" =>
         /\ After.items = Before.items
         /\ total_price(After) = total_price(Before)

\* C20 witness: total_price was read a second time on a discounted cart holding a
\* line of a size other than Medium
C20_Witness ==
    /\ last.op = "total_price"
    /\ Before.discount_applied > 0
    /\ Before.discount_applied = calculate_discount(Before)
    /\ Len(Before.items) >= 2
    /\ \E i \in 1..Len(Before.items) : Before.items[i].drink.size # "Medium"

\* C21: a VIP customer with balance 100 who orders 2 of a Medium item priced 35
\* gets subtotal 70, discount 14 and total 56; submit_order succeeds and the balance
\* becomes exactly 44.
C21_VipScenario ==
    (/\ last.op = "submit_order"
     /\ pre.is_open
     /\ CustomerType[Before.customer] = "VIPCustomer"
     /\ pre.customer[Before.customer].balance = 10000
     /\ Before.items = <<[drink |-> Latte, qty |-> 2]>>)
        => /\ calculate_subtotal(Before) = 7000
           /\ calculate_discount(Before) = 1400
           /\ total_price(Before) = 5600
           /\ last.ok
           /\ customer[Before.customer].balance = 4400

\* C21 witness: the scenario's submit_order has run
C21_Witness ==
    /\ last.op = "submit_order"
    /\ pre.is_open
    /\ CustomerType[Before.customer] = "VIPCustomer"
    /\ pre.customer[Before.customer].balance = 10000
    /\ Before.items = <<[drink |-> Latte, qty |-> 2]>>
    /\ After.discount_applied = 1400

\* C23: no order with zero lines is in Preparing, and a successful assign takes an
\* order that has at least one line.
C23_NoEmptyOrderInPreparation ==
    /\ \A o \in OrderIds : order[o].status = PREPARING => order[o].items # <<>>
    /\ (last.op = "assign_order_to_barista" /\ last.ok) => Before.items # <<>>

\* C24: under every interleaving of the commands, each one atomic step, an order is
\* taken into preparation only while Pending and never yet bound to a worker, it
\* never returns to Pending, and no order is the current_order of two workers.
C24_NoDoubleAssignment ==
    /\ \A o \in OrderIds :
         /\ (order[o].status = PREPARING /\ pre.order[o].status # PREPARING) =>
                pre.order[o].status = PENDING /\ pre.order[o].barista = None
         /\ pre.order[o].status # PENDING => order[o].status # PENDING
         /\ order[o].status = PENDING => order[o].barista = None
    /\ \A b1, b2 \in Baristas :
         (b1 # b2 /\ barista[b1].current_order # 0) =>
             barista[b1].current_order # barista[b2].current_order

\* C24 witness: an order already in preparation with one worker, still queued, was
\* offered to another worker who was available, and the call failed
C24_Witness ==
    /\ last.op = "assign_order_to_barista"
    /\ ~last.ok
    /\ last.arg \in Range(pre.pending_orders)
    /\ is_available(pre.barista[last.who])
    /\ \E b \in Baristas : b # last.who /\ pre.barista[b].current_order = last.arg

\* C26: cancel_order and complete_order called with an id that matches no order in
\* the order log fail and change nothing.
C26_UnknownIdFails ==
    (last.op \in {"cancel_order", "complete_order"} /\ last.arg \notin Range(pre.orders))
        => ~last.ok /\ State = pre

\* C26 witness: cancel_order was given the id of an order with lines that was never
\* submitted
C26_Witness ==
    /\ last.op = "cancel_order"
    /\ ~last.ok
    /\ last.arg \notin Range(pre.orders)
    /\ Before.items # <<>>

\* C30: a worker's current_order is Preparing and has that worker as its barista;
\* every Preparing order is the current_order of exactly one worker; after a
\* successful cancel_order on a Preparing order no worker holds it.
C30_CurrentOrderIsPreparing ==
    /\ \A b \in Baristas :
         barista[b].current_order # 0 =>
             /\ order[barista[b].current_order].status = PREPARING
             /\ order[barista[b].current_order].barista = b
    /\ \A o \in OrderIds :
         order[o].status = PREPARING =>
             Cardinality({b \in Baristas : barista[b].current_order = o}) = 1
    /\ (last.op = "cancel_order" /\ last.ok /\ Before.status = PREPARING) =>
         \A b \in Baristas : barista[b].current_order # last.arg

\* the lines of a cart are well formed: positive quantities, no item twice
WellFormed(items) ==
    /\ \A i \in 1..Len(items) : items[i].qty > 0
    /\ \A i, j \in 1..Len(items) :
         (items[i].drink.name = items[j].drink.name
          /\ items[i].drink.size = items[j].drink.size) => i = j

\* C29: in every order every line has quantity > 0 and no two lines hold the same
\* item name and size; add_item with a non-positive quantity fails and leaves the
\* lines unchanged; adding an item already present increases that line's quantity
\* and adds no line.
C29_LinesWellFormed ==
    \A o \in 1..id_counter :
        LET items == order[o].items IN
        /\ WellFormed(items)
        /\ \A d \in SizedDrinks, q \in {-1, 0} :
             ~add_item(order[o], d, q).ok /\ add_item(order[o], d, q).self = order[o]
        /\ \A i \in 1..Len(items), q \in 1..MaxQty :
             LET r == add_item(order[o], items[i].drink, q) IN
             /\ r.ok
             /\ Len(r.self.items) = Len(items)
             /\ r.self.items[i].qty = items[i].qty + q
             /\ \A j \in 1..Len(items) : j # i => r.self.items[j] = items[j]

\* C29 witness: add_item merged a quantity into a line of a cart of several lines
C29_Witness ==
    /\ last.op = "add_item"
    /\ last.ok
    /\ Len(Before.items) >= 2
    /\ Len(After.items) = Len(Before.items)
    /\ After.items # Before.items

\* C22: no customer's balance is ever negative after any sequence of submit_order,
\* cancel_order, complete_order and add_balance calls.
C22_BalanceNonNegative == \A c \in Customers : customer[c].balance >= 0

\* C22 witness: add_balance was called with a negative amount larger than the
\* balance the customer had left after paying, and was refused
C22_Witness ==
    /\ last.op = "add_balance"
    /\ ~last.ok
    /\ pre.customer[last.who].balance < 5600
    /\ customer[last.who].balance = pre.customer[last.who].balance

\* the reporting queries
Reports == {"get_dashboard_statistics", "get_best_selling_drinks", "get_top_customers"}

\* C27: the reporting queries change no state: every field of every order (the
\* cached discount included), customer and worker, the queue, the log and the
\* revenue counters are the same before and after the call.
C27_ReportsArePure == last.op \in Reports => State = pre

\* C25: registering a customer whose email equals, letter case aside, the email
\* of a registered customer fails and leaves the customer list as it was, and
\* the same holds for hiring a barista; no two registered customers, and no two
\* baristas, have the same email, letter case aside.
C25_EmailsUnique ==
    /\ (/\ last.op = "register_customer"
        /\ \E i \in 1..Len(pre.customers) :
              Lower(pre.customers[i].email) = Lower(last.who))
       => ~last.ok /\ customers = pre.customers
    /\ (/\ last.op = "hire_barista"
        /\ \E i \in 1..Len(pre.baristas) :
              Lower(pre.baristas[i].email) = Lower(last.who))
       => ~last.ok /\ baristas = pre.baristas
    /\ \A i, j \in 1..Len(customers) :
          i # j => Lower(customers[i].email) # Lower(customers[j].email)
    /\ \A i, j \in 1..Len(baristas) :
          i # j => Lower(baristas[i].email) # Lower(baristas[j].email)

\* a registration was refused for an email that differs from a registered one
\* in letter case only
C25_Witness ==
    /\ last.op = "register_customer"
    /\ ~last.ok
    /\ \E i \in 1..Len(customers) :
          /\ customers[i].email # last.who
          /\ Lower(customers[i].email) = Lower(last.who)

\* C28: after the data was saved and loaded back, every customer has the id,
\* the class, the balance and the loyalty points it had, and every barista the
\* id, the experience years and the hourly rate it had.
C28_SaveLoadRoundTrip ==
    last.op = "restart" =>
        /\ Len(customers) = Len(pre.customers)
        /\ \A i \in 1..Len(pre.customers) :
              LET n == pre.customers[i].name IN
              /\ customers[i].name = n
              /\ customers[i].id = pre.customers[i].id
              /\ customers[i].type = pre.customers[i].type
              /\ customer[n].balance = pre.customer[n].balance
              /\ customer[n].loyalty_points = pre.customer[n].loyalty_points
        /\ Len(baristas) = Len(pre.baristas)
        /\ \A i \in 1..Len(pre.baristas) :
              /\ baristas[i].name = pre.baristas[i].name
              /\ baristas[i].id = pre.baristas[i].id
              /\ baristas[i].experience_years = pre.baristas[i].experience_years
              /\ baristas[i].hourly_rate = pre.baristas[i].hourly_rate

\* C39: open_cafe fails when the cafe is open and close_cafe fails when it is
\* closed, and each then leaves the open flag, the daily revenue and the total
\* revenue as they were; create_order and submit_order fail whenever the cafe is
\* closed.
C39_OpenCloseFailures ==
    /\ (last.op = "open_cafe" /\ pre.is_open) =>
         /\ ~last.ok
         /\ is_open = pre.is_open
         /\ daily_revenue = pre.daily_revenue
         /\ total_revenue = pre.total_revenue
    /\ (last.op = "close_cafe" /\ ~pre.is_open) =>
         /\ ~last.ok
         /\ is_open = pre.is_open
         /\ daily_revenue = pre.daily_revenue
         /\ total_revenue = pre.total_revenue
    /\ (last.op \in {"create_order", "submit_order"} /\ ~pre.is_open) => ~last.ok

\* C39 witness: submit_order refused, in a closed cafe that has taken revenue, an
\* order with lines that its customer could pay
C39_Witness ==
    /\ last.op = "submit_order"
    /\ ~pre.is_open
    /\ ~last.ok
    /\ pre.total_revenue > 0
    /\ Before.items # <<>>
    /\ pre.customer[Before.customer].balance >= total_price(Before)

\* C36: after any command of the ledger has returned, with or without an error,
\* no order in the order log has status Ready.
C36_ReadyIsTransient ==
    last.op \in LedgerCommands => \A o \in Range(orders) : order[o].status # READY

\* C37: a worker that holds a current order is on duty and in the worker list:
\* while current_order is set, end_shift fails and fire_barista fails.
C37_HolderOnDuty ==
    /\ \A b \in BaristaNames :
          barista[b].current_order # 0 =>
              /\ barista[b].is_on_duty
              /\ \E i \in 1..Len(baristas) : baristas[i].name = b
    /\ (last.op = "end_shift" /\ pre.barista[last.who].current_order # 0) => ~last.ok
    /\ (/\ last.op = "fire_barista"
        /\ \E i \in 1..Len(pre.baristas) :
              /\ Lower(pre.baristas[i].email) = Lower(last.who)
              /\ pre.barista[pre.baristas[i].name].current_order # 0)
       => ~last.ok

\* the orders a worker moved from Preparing to Ready during the last call
MovedToReady(b) ==
    {o \in OrderIds : /\ pre.order[o].status = PREPARING
                      /\ order[o].status \in {READY, DELIVERED}
                      /\ pre.order[o].barista = b}

\* C38: every customer's order history has as many entries as the customer has
\* Delivered orders, and every call adds to a worker's completion log exactly
\* one entry for each order the worker moved from Preparing to Ready, so that
\* the log counts those orders.
C38_HistoryCounts ==
    /\ \A c \in Customers :
          Len(customer[c].order_history) =
              Cardinality({o \in OrderIds : /\ order[o].customer = c
                                            /\ order[o].status = DELIVERED})
    /\ \A b \in Baristas :
          Len(barista[b].orders_completed) =
              Len(pre.barista[b].orders_completed) + Cardinality(MovedToReady(b))

\* C38 witness: a second order of the same customer was completed by the same
\* worker
C38_Witness ==
    /\ last.op = "complete_order"
    /\ last.ok
    /\ Len(customer[After.customer].order_history) = 2
    /\ Len(barista[last.who].orders_completed) = 2

\* C33: submit_order on an order that is already in the order log does not debit
\* the customer again and adds no entry to the order log or to the pending queue.
C33_ChargedAtMostOnce ==
    (last.op = "submit_order" /\ last.arg \in Range(pre.orders)) =>
        /\ customer[Before.customer].balance = pre.customer[Before.customer].balance
        /\ orders = pre.orders
        /\ pending_orders = pre.pending_orders

\* no order is twice in the order log
LoggedOnce == \A i, j \in 1..Len(orders) : orders[i] = orders[j] => i = j

\* C32: every order in the pending queue has status Pending, is in the queue
\* once, and is in the order log.
C32_PendingQueue ==
    /\ \A i \in 1..Len(pending_orders) :
          /\ order[pending_orders[i]].status = PENDING
          /\ pending_orders[i] \in Range(orders)
    /\ \A i, j \in 1..Len(pending_orders) :
          pending_orders[i] = pending_orders[j] => i = j

\* the sum of the totals of the first n entries of an order history
RECURSIVE HistoryTotal(_, _)
HistoryTotal(h, n) == IF n = 0 THEN 0 ELSE HistoryTotal(h, n - 1) + h[n].total

\* the totals of all Delivered orders, as they were when they were delivered
RECURSIVE DeliveredTotal(_)
DeliveredTotal(cs) ==
    IF cs = {} THEN 0
    ELSE LET c == CHOOSE x \in cs : TRUE IN
         HistoryTotal(customer[c].order_history, Len(customer[c].order_history))
             + DeliveredTotal(cs \ {c})

\* C35: after every successful close_cafe, total_revenue is the sum of the totals
\* of all Delivered orders, orders completed while the cafe was closed included.
C35_RevenueIsDeliveredTotal ==
    (last.op = "close_cafe" /\ last.ok) => total_revenue = DeliveredTotal(Customers)

\* C34: the amount cancel_order refunds is the amount submit_order debited for
\* the order, whatever add_item, remove_item or clear_items did to the order in
\* between: when a customer's only paid order, paid once, has been cancelled,
\* the customer's balance is the balance from before the submit.
C34_RefundEqualsDebit ==
    (/\ last.op = "cancel_order"
     /\ last.ok
     /\ LoggedOnce
     /\ \A o \in Range(orders) : order[o].customer = Before.customer => o = last.arg)
    => customer[Before.customer].balance \in InitBalance[Before.customer]

\* C31: if from some moment on a worker is always on duty, every order that
\* submit_order accepted is eventually Delivered or Cancelled, under SpecLive,
\* in which auto_assign_orders and complete_order keep being called.
C31_AcceptedOrdersFinish ==
    (<>[](\E b \in Baristas : barista[b].is_on_duty)) =>
        \A o \in OrderIds : (o \in Range(orders)) ~> (order[o].status \in Terminal)

====
